---- MODULE Spec2Model ----
(***************************************************************************)
(* Two micro:bit peers playing battleship over the radio.                  *)
(*                                                                         *)
(* Sources modelled:                                                       *)
(*   src/unnamed/part_001  lines 1-533   GameState, PlayerNumber, Cursor,  *)
(*                                       Game (connect, placeShips,        *)
(*                                       playGame, isHit)                  *)
(*   src/src/radio.ts      lines 76-238  GameRadio (codec, router)         *)
(*   src/unnamed/part_004                Ship                              *)
(*   src/src/game.ts       lines 517-547 shipClasses                       *)
(*   src/unnamed/part_000  lines 195-204 RadioMessageEnum                  *)
(*                                                                         *)
(* Execution model.  Every event handler (radio receive, button event)     *)
(* runs to completion, except where the code calls basic.pause: the pause  *)
(* of the handshake handlers before placeShips, and the pause of the       *)
(* placement loop.  At a pause the fiber yields and any other event may be *)
(* processed.  Display calls (basic.showString, clearScreen, led.plot,     *)
(* game.addScore) write to the display only and are left out.  A broadcast *)
(* reaches the other peer of the two-peer session; the radio keeps no      *)
(* order between broadcasts and never duplicates one.  A lost packet is a  *)
(* packet that is never handed over.                                       *)
(***************************************************************************)
EXTENDS Integers, Sequences, FiniteSets, Bags, TLC

VARIABLES
    state,            \* Game.state of each peer
    otherPlayerState, \* Game.otherPlayerState of each peer
    playerNumber,     \* Game.playerNumber of each peer
    currentTurn,      \* Game.currentTurn of each peer
    shipsPlaced,      \* Game.shipsPlaced of each peer: sequence of Ship
    cursor,           \* Game.cursor of each peer: <<x, y>>
    playerId,         \* GameRadio.playerId of each peer: a random number that
                      \* no branch of the code depends on; the two differ here
    eventListeners,   \* GameRadio.eventListeners of each peer: key -> callbacks
    buttonListeners,  \* handlers registered with input.onButtonPressed(Button.AB)
    pc,               \* where the fiber that runs placeShips stands
    shipIndex,        \* placeShips: outer loop variable
    shipCount,        \* placeShips: inner loop variable i
    net,              \* bag of radio packets in flight
    moves,            \* number of cursor moves made so far (bounds the model)
    probe             \* arguments and result of the last pure call examined

vars == << state, otherPlayerState, playerNumber, currentTurn, shipsPlaced,
           cursor, playerId, eventListeners, buttonListeners, pc, shipIndex,
           shipCount, net, moves, probe >>

(***************************************************************************)
(* Bounds of the model                                                     *)
(***************************************************************************)
\* cursor moves (button A / button B events) of the session; an operator moves
\* the cursor while the program reads it (placement, play)
MaxMoves == 1
\* packets of a peer still in flight beyond which its operator does not press A+B
MaxInFlight == 1
\* ships in a fleet examined by the pure calls
MaxProbeShips == 1

Peers == {1, 2}

\* The other device of the session: the one a broadcast reaches.
Other(p) == IF p = 1 THEN 2 ELSE 1

(***************************************************************************)
(* Enumerations                                                            *)
(***************************************************************************)
\* const enum GameState: numeric values in declaration order
GameState ==
    [connecting |-> 0, setup |-> 1, waitingForOtherPlayerToSetup |-> 2,
     playing |-> 3, gameOver |-> 4]

\* const enum PlayerNumber
PlayerNumber == [notConnected |-> 0, one |-> 1, two |-> 2]

\* enum ShipOrientation
ShipOrientation == [horizontal |-> 0, vertical |-> 1]

\* Wire keys, as the sequence of their characters.
RadioMessageEnum ==
    [playerJoined      |-> <<"n", "P", "j">>,
     playerLeft        |-> <<"n", "P", "l">>,
     proceedingToSetup |-> <<"n", "P", "2">>,
     shipsPlaced       |-> <<"n", "P", "l">>,
     startGame         |-> <<"n", "S", "g">>,
     attack            |-> <<"c", "A", "t">>,
     hit               |-> <<"c", "H", "t">>,
     miss              |-> <<"c", "M", "s">>]

Keys == { RadioMessageEnum[k] : k \in DOMAIN RadioMessageEnum }

\* string.charAt(0)
charAt0(key) == key[1]

(***************************************************************************)
(* Ships                                                                   *)
(***************************************************************************)
shipClasses ==
    << [name |-> "Carrier",    size |-> 5, count |-> 1],
       [name |-> "Battleship", size |-> 4, count |-> 1],
       [name |-> "Cruiser",    size |-> 3, count |-> 1],
       [name |-> "Submarine",  size |-> 3, count |-> 1],
       [name |-> "Destroyer",  size |-> 2, count |-> 1] >>

\* Array.find: the first element with the name
RECURSIVE findShipClass(_, _)
findShipClass(name, k) ==
    IF shipClasses[k].name = name THEN shipClasses[k]
    ELSE findShipClass(name, k + 1)

\* new Ship(name, x, y, orientation)
Ship(name, x, y, orientation) ==
    [name |-> name, size |-> findShipClass(name, 1).size,
     x |-> x, y |-> y, orientation |-> orientation]

\* Ship.getCoordinates: the loop body run for i, i+1, ... below size
RECURSIVE getCoordinatesFrom(_, _)
getCoordinatesFrom(ship, k) ==
    IF k < ship.size
    THEN << IF ship.orientation = ShipOrientation.horizontal
            THEN << ship.x + k, ship.y >>
            ELSE << ship.x, ship.y + k >> >>
         \o getCoordinatesFrom(ship, k + 1)
    ELSE << >>

\* Faulty variant: the loop starts at 1
getCoordinates_skipHead(ship) == getCoordinatesFrom(ship, 1)

getCoordinates(ship) == getCoordinatesFrom(ship, 0)

\* Ship.isCoordinatesValid: scan of the cells, false at the first one outside
RECURSIVE isCoordinatesValidFrom(_, _)
isCoordinatesValidFrom(coordinates, k) ==
    IF k > Len(coordinates) THEN TRUE
    ELSE LET x == coordinates[k][1]
             y == coordinates[k][2]
         IN  IF x < 0 \/ x > 4 \/ y < 0 \/ y > 4 THEN FALSE
             ELSE isCoordinatesValidFrom(coordinates, k + 1)

\* Faulty variant: only the head of the ship is examined
isCoordinatesValid_headOnly(ship) ==
    isCoordinatesValidFrom(<< getCoordinates(ship)[1] >>, 1)

isCoordinatesValid(ship) == isCoordinatesValidFrom(getCoordinates(ship), 1)

\* Game.isHit: inner loop over the cells of one ship
RECURSIVE isHitCells(_, _, _)
isHitCells(shipCoordinates, j, coordinate) ==
    IF j > Len(shipCoordinates) THEN FALSE
    ELSE IF shipCoordinates[j][1] = coordinate[1]
            /\ shipCoordinates[j][2] = coordinate[2]
         THEN TRUE
         ELSE isHitCells(shipCoordinates, j + 1, coordinate)

\* Game.isHit: outer loop over the ships of the fleet
RECURSIVE isHitShips(_, _, _)
isHitShips(ships, k, coordinate) ==
    IF k > Len(ships) THEN FALSE
    ELSE IF isHitCells(getCoordinates(ships[k]), 1, coordinate) THEN TRUE
         ELSE isHitShips(ships, k + 1, coordinate)

isHit(ships, coordinate) == isHitShips(ships, 1, coordinate)

(***************************************************************************)
(* Coordinate mapping                                                      *)
(***************************************************************************)
coordinatesToNumber(coordinates) == coordinates[1] + 5 * coordinates[2]

\* number % 5 keeps the sign of the dividend in JavaScript; Math.floor rounds down
jsRem(a, b) == IF a >= 0 THEN a % b ELSE -((-a) % b)

\* Faulty variant: quotient and remainder are exchanged
numberToCoordinates_swapped(number) == << number \div 5, jsRem(number, 5) >>

numberToCoordinates(number) == << jsRem(number, 5), number \div 5 >>

(***************************************************************************)
(* The state of both peers and of the radio as one value, so that a        *)
(* handler is a function from the state before it to the state after it    *)
(* and the router can run several callbacks one after the other.  calls is *)
(* the trace of one event: the callbacks that only record their call, with *)
(* the value each was given.                                               *)
(***************************************************************************)
World ==
    [state |-> state, otherPlayerState |-> otherPlayerState,
     playerNumber |-> playerNumber, currentTurn |-> currentTurn,
     shipsPlaced |-> shipsPlaced, cursor |-> cursor, playerId |-> playerId,
     eventListeners |-> eventListeners, buttonListeners |-> buttonListeners,
     pc |-> pc, shipIndex |-> shipIndex, shipCount |-> shipCount, net |-> net,
     calls |-> << >>]

\* The state after a handler becomes the state of the program
Commit(w) ==
    /\ state' = w.state
    /\ otherPlayerState' = w.otherPlayerState
    /\ playerNumber' = w.playerNumber
    /\ currentTurn' = w.currentTurn
    /\ shipsPlaced' = w.shipsPlaced
    /\ cursor' = w.cursor
    /\ playerId' = w.playerId
    /\ eventListeners' = w.eventListeners
    /\ buttonListeners' = w.buttonListeners
    /\ pc' = w.pc
    /\ shipIndex' = w.shipIndex
    /\ shipCount' = w.shipCount
    /\ net' = w.net

(***************************************************************************)
(* GameRadio                                                               *)
(***************************************************************************)
Packet(to, key, value) == [to |-> to, key |-> key, value |-> value]

\* radio.sendValue of the platform: one packet towards the other peer
radioSendValue(w, p, key, value) ==
    [w EXCEPT !.net = @ (+) SetToBag({Packet(Other(p), key, value)})]

\* GameRadio.sendValue with the column and the row of a cell exchanged
sendValue_transposed(w, p, messageType, value) ==
    radioSendValue(w, p, messageType,
                   IF charAt0(messageType) = "c"
                   THEN coordinatesToNumber(<< value[2], value[1] >>)
                   ELSE value)

\* GameRadio.sendValue
sendValue(w, p, messageType, value) ==
    LET messageValue ==
            CASE charAt0(messageType) = "n" -> value
              [] charAt0(messageType) = "c" -> coordinatesToNumber(value)
              [] OTHER -> value
    IN  radioSendValue(w, p, messageType, messageValue)

\* GameRadio.on with unshift in the place of push
on_prepend(w, p, messageType, callback) ==
    [w EXCEPT !.eventListeners[p][messageType] = << callback >> \o @]

\* GameRadio.on
on(w, p, messageType, callback) ==
    [w EXCEPT !.eventListeners[p][messageType] = Append(@, callback)]

(***************************************************************************)
(* Game                                                                    *)
(***************************************************************************)
\* Game.isMyTurn
isMyTurn(w, p) == w.playerNumber[p] = w.currentTurn[p]

\* Faulty variant: the turn is not handed over after the attack
confirmAttack_noFlip(w, p) ==
    IF ~isMyTurn(w, p) THEN w
    ELSE sendValue(w, p, RadioMessageEnum.attack, w.cursor[p])

\* Faulty variant: the turn is not looked at
confirmAttack_noTurnCheck(w, p) ==
    LET w1 == sendValue(w, p, RadioMessageEnum.attack, w.cursor[p])
    IN  [w1 EXCEPT !.currentTurn[p] =
             IF @ = PlayerNumber.one THEN PlayerNumber.two
             ELSE PlayerNumber.one]

\* The handler playGame registers for Button.AB
confirmAttack(w, p) ==
    IF ~isMyTurn(w, p) THEN w
    ELSE LET w1 == sendValue(w, p, RadioMessageEnum.attack, w.cursor[p])
         IN  [w1 EXCEPT !.currentTurn[p] =
                  IF @ = PlayerNumber.one THEN PlayerNumber.two
                  ELSE PlayerNumber.one]

\* The callback playGame registers for attack
attackHandler(w, p, coordinate) ==
    IF isHit(w.shipsPlaced[p], coordinate)
    THEN sendValue(w, p, RadioMessageEnum.hit, coordinate)
    ELSE sendValue(w, p, RadioMessageEnum.miss, coordinate)

\* Faulty variant: the answer to an attack hands the turn over
hitHandler_flipsTurn(w, p, coordinate) ==
    [w EXCEPT !.currentTurn[p] =
         IF @ = PlayerNumber.one THEN PlayerNumber.two ELSE PlayerNumber.one]

\* Faulty variant: a hit ends the game
hitHandler_endsGame(w, p, coordinate) ==
    [w EXCEPT !.state[p] = GameState.gameOver]

\* The callbacks playGame registers for hit and for miss
hitHandler(w, p, coordinate) == w

missHandler(w, p, coordinate) == w

\* Game.playGame
playGame(w, p) ==
    LET w1 == [w EXCEPT !.buttonListeners[p] = Append(@, "confirmAttack")]
        w2 == on(w1, p, RadioMessageEnum.attack, "attack")
        w3 == on(w2, p, RadioMessageEnum.hit, "hit")
    IN  on(w3, p, RadioMessageEnum.miss, "miss")

\* Faulty variant: the phase is not looked at
shipsPlacedHandler_noGuard(w, p, otherPlayerId) ==
    LET w1 == [w EXCEPT !.state[p] = GameState.playing]
        w2 == sendValue(w1, p, RadioMessageEnum.startGame, w1.playerId[p])
        w3 == [w2 EXCEPT !.otherPlayerState[p] = GameState.playing]
    IN  playGame(w3, p)

\* Faulty variant: the guard names the phase in which ships are placed by
\* the declared order (setup) instead of waitingForOtherPlayerToSetup
shipsPlacedHandler_wrongPhase(w, p, otherPlayerId) ==
    IF w.state[p] = GameState.setup
    THEN LET w1 == [w EXCEPT !.state[p] = GameState.playing]
             w2 == sendValue(w1, p, RadioMessageEnum.startGame, w1.playerId[p])
             w3 == [w2 EXCEPT !.otherPlayerState[p] = GameState.playing]
         IN  playGame(w3, p)
    ELSE w

\* Faulty variant: the other peer is not told to start
shipsPlacedHandler_noStartGame(w, p, otherPlayerId) ==
    IF w.state[p] = GameState.waitingForOtherPlayerToSetup
    THEN playGame([w EXCEPT !.state[p] = GameState.playing,
                            !.otherPlayerState[p] = GameState.playing], p)
    ELSE w

\* The callback placeShips registers for shipsPlaced
shipsPlacedHandler(w, p, otherPlayerId) ==
    IF w.state[p] = GameState.waitingForOtherPlayerToSetup
    THEN LET w1 == [w EXCEPT !.state[p] = GameState.playing]
             w2 == sendValue(w1, p, RadioMessageEnum.startGame, w1.playerId[p])
             w3 == [w2 EXCEPT !.otherPlayerState[p] = GameState.playing]
         IN  playGame(w3, p)
    ELSE w

\* Faulty variant: play begins without the phase being set
startGameHandler_noPhase(w, p, otherPlayerId) ==
    playGame([w EXCEPT !.otherPlayerState[p] = GameState.playing], p)

\* The callback placeShips registers for startGame
startGameHandler(w, p, otherPlayerId) ==
    playGame([w EXCEPT !.state[p] = GameState.playing,
                       !.otherPlayerState[p] = GameState.playing], p)

\* placeShips: the next (shipIndex, i) at which the while loop is entered,
\* or shipIndex = shipClasses.length when both for loops are over
RECURSIVE nextSlot(_, _)
nextSlot(si, i) ==
    IF si >= Len(shipClasses) THEN << si, 0 >>
    ELSE IF i < shipClasses[si + 1].count THEN << si, i >>
         ELSE nextSlot(si + 1, 0)

\* placeShips: after the loops; "Done" and the shipsPlaced broadcast
placeShipsFinish(w, p) ==
    LET w1 == sendValue(w, p, RadioMessageEnum.shipsPlaced, w.playerId[p])
    IN  [w1 EXCEPT !.pc[p] = "done"]

\* placeShips: arrive at slot; either pause in the while loop or finish
placeShipsAt(w, p, slot) ==
    LET w1 == [w EXCEPT !.shipIndex[p] = slot[1], !.shipCount[p] = slot[2]]
    IN  IF slot[1] >= Len(shipClasses) THEN placeShipsFinish(w1, p)
        ELSE [w1 EXCEPT !.pc[p] = "placing"]

\* Game.placeShips from its first line to the first basic.pause(100)
placeShips(w, p) ==
    LET w1 == [w EXCEPT !.state[p] = GameState.waitingForOtherPlayerToSetup]
        w2 == on(w1, p, RadioMessageEnum.shipsPlaced, "shipsPlaced")
        w3 == on(w2, p, RadioMessageEnum.startGame, "startGame")
    IN  placeShipsAt(w3, p, nextSlot(0, 0))

\* Faulty variant: the candidate is placed without being validated
placeShipsPoll_noValidation(w, p, pressed) ==
    IF ~pressed THEN w
    ELSE LET shipClass == shipClasses[w.shipIndex[p] + 1]
             ship == Ship(shipClass.name, w.cursor[p][1], w.cursor[p][2],
                          ShipOrientation.horizontal)
         IN  placeShipsAt(
                 [w EXCEPT !.shipsPlaced[p] = Append(@, ship)], p,
                 nextSlot(w.shipIndex[p], w.shipCount[p] + 1))

\* placeShips: one turn of the while loop after basic.pause(100);
\* pressed is what input.buttonIsPressed(Button.AB) returns
placeShipsPoll(w, p, pressed) ==
    IF ~pressed THEN w
    ELSE LET shipClass == shipClasses[w.shipIndex[p] + 1]
             ship == Ship(shipClass.name, w.cursor[p][1], w.cursor[p][2],
                          ShipOrientation.horizontal)
         IN  IF isCoordinatesValid(ship) = TRUE
             THEN placeShipsAt(
                      [w EXCEPT !.shipsPlaced[p] = Append(@, ship)], p,
                      nextSlot(w.shipIndex[p], w.shipCount[p] + 1))
             ELSE w

\* Faulty variant: the peer that is joined takes the role of the joiner
playerJoinedHandler_roleOne(w, p, otherPlayerId) ==
    IF w.state[p] # GameState.connecting THEN w
    ELSE LET w1 == [w EXCEPT !.state[p] = GameState.setup,
                             !.playerNumber[p] = PlayerNumber.one]
             w2 == sendValue(w1, p, RadioMessageEnum.proceedingToSetup,
                             otherPlayerId)
         IN  [w2 EXCEPT !.otherPlayerState[p] = GameState.setup,
                        !.pc[p] = "pause"]

\* Faulty variant: the check of the phase is missing
playerJoinedHandler_noGuard(w, p, otherPlayerId) ==
    LET w1 == [w EXCEPT !.state[p] = GameState.setup,
                        !.playerNumber[p] = PlayerNumber.two]
        w2 == sendValue(w1, p, RadioMessageEnum.proceedingToSetup, otherPlayerId)
    IN  [w2 EXCEPT !.otherPlayerState[p] = GameState.setup, !.pc[p] = "pause"]

\* Faulty variant: the player number is not assigned
playerJoinedHandler_noRole(w, p, otherPlayerId) ==
    IF w.state[p] # GameState.connecting THEN w
    ELSE LET w1 == [w EXCEPT !.state[p] = GameState.setup]
             w2 == sendValue(w1, p, RadioMessageEnum.proceedingToSetup,
                             otherPlayerId)
         IN  [w2 EXCEPT !.otherPlayerState[p] = GameState.setup,
                        !.pc[p] = "pause"]

\* Faulty variant: the confirmation is not sent
playerJoinedHandler_noReply(w, p, otherPlayerId) ==
    IF w.state[p] # GameState.connecting THEN w
    ELSE [w EXCEPT !.state[p] = GameState.setup,
                   !.playerNumber[p] = PlayerNumber.two,
                   !.otherPlayerState[p] = GameState.setup,
                   !.pc[p] = "pause"]

\* Faulty variant: the confirmation carries the local id
playerJoinedHandler_ownId(w, p, otherPlayerId) ==
    IF w.state[p] # GameState.connecting THEN w
    ELSE LET w1 == [w EXCEPT !.state[p] = GameState.setup,
                             !.playerNumber[p] = PlayerNumber.two]
             w2 == sendValue(w1, p, RadioMessageEnum.proceedingToSetup,
                             w1.playerId[p])
         IN  [w2 EXCEPT !.otherPlayerState[p] = GameState.setup,
                        !.pc[p] = "pause"]

\* The callback connect registers for playerJoined, up to basic.pause(1000)
playerJoinedHandler(w, p, otherPlayerId) ==
    IF w.state[p] # GameState.connecting THEN w
    ELSE LET w1 == [w EXCEPT !.state[p] = GameState.setup,
                             !.playerNumber[p] = PlayerNumber.two]
             w2 == sendValue(w1, p, RadioMessageEnum.proceedingToSetup,
                             otherPlayerId)
         IN  [w2 EXCEPT !.otherPlayerState[p] = GameState.setup,
                        !.pc[p] = "pause"]

\* Faulty variant: the reply is accepted until play begins
proceedingToSetupHandler_late(w, p, thisPlayerId) ==
    IF w.state[p] = GameState.playing THEN w
    ELSE [w EXCEPT !.state[p] = GameState.setup,
                   !.otherPlayerState[p] = GameState.setup,
                   !.playerNumber[p] = PlayerNumber.one,
                   !.pc[p] = "pause"]

\* Faulty variant: the check of the phase is missing
proceedingToSetupHandler_noGuard(w, p, thisPlayerId) ==
    [w EXCEPT !.state[p] = GameState.setup,
              !.otherPlayerState[p] = GameState.setup,
              !.playerNumber[p] = PlayerNumber.one,
              !.pc[p] = "pause"]

\* Faulty variant: the handler returns when the ids differ
proceedingToSetupHandler_strict(w, p, thisPlayerId) ==
    IF w.playerId[p] # thisPlayerId THEN w
    ELSE IF w.state[p] # GameState.connecting THEN w
    ELSE [w EXCEPT !.state[p] = GameState.setup,
                   !.otherPlayerState[p] = GameState.setup,
                   !.playerNumber[p] = PlayerNumber.one,
                   !.pc[p] = "pause"]

\* The callback connect registers for proceedingToSetup, up to basic.pause(1000);
\* the comparison of the ids only logs
proceedingToSetupHandler(w, p, thisPlayerId) ==
    IF w.state[p] # GameState.connecting THEN w
    ELSE [w EXCEPT !.state[p] = GameState.setup,
                   !.otherPlayerState[p] = GameState.setup,
                   !.playerNumber[p] = PlayerNumber.one,
                   !.pc[p] = "pause"]

\* Faulty variant: the phase is not looked at
joinHandler_noGuard(w, p) ==
    sendValue(w, p, RadioMessageEnum.playerJoined, w.playerId[p])

\* The handler connect registers for Button.AB
joinHandler(w, p) ==
    IF w.state[p] # GameState.connecting THEN w
    ELSE sendValue(w, p, RadioMessageEnum.playerJoined, w.playerId[p])

(***************************************************************************)
(* Dispatch                                                                *)
(***************************************************************************)
\* Callbacks that do nothing but record that they were called
ProbeHandlers == { "probeA", "probeB" }

\* callback(messageValue) for the closure registered under the name
callback(name, w, p, messageValue) ==
    CASE name = "playerJoined" -> playerJoinedHandler(w, p, messageValue)
      [] name = "proceedingToSetup" -> proceedingToSetupHandler(w, p, messageValue)
      [] name = "shipsPlaced" -> shipsPlacedHandler(w, p, messageValue)
      [] name = "startGame" -> startGameHandler(w, p, messageValue)
      [] name = "attack" -> attackHandler(w, p, messageValue)
      [] name = "hit" -> hitHandler(w, p, messageValue)
      [] name = "miss" -> missHandler(w, p, messageValue)
      [] name \in ProbeHandlers ->
             [w EXCEPT !.calls = Append(@, << name, messageValue >>)]

\* onReceivedValue: the loop over callbacks, which reads the live array; the
\* next callback runs on the world the previous one left
RECURSIVE callCallbacks(_, _, _, _, _)
callCallbacks(w, p, key, i, messageValue) ==
    IF i > Len(w.eventListeners[p][key]) THEN w
    ELSE CHOOSE r \in
             { callCallbacks(w1, p, key, i + 1, messageValue) :
                 w1 \in { callback(w.eventListeners[p][key][i], w, p,
                                   messageValue) } } : TRUE

\* The handler GameRadio's constructor gives radio.onReceivedValue
\* The callback of radio.onReceivedValue without the return for no callbacks:
\* a message nobody listens to is sent back
onReceivedValue_echo(w, p, messageType, value) ==
    IF w.eventListeners[p][messageType] = << >>
    THEN radioSendValue(w, p, messageType, value)
    ELSE callCallbacks(w, p, messageType, 1,
                       IF charAt0(messageType) = "c"
                       THEN numberToCoordinates(value) ELSE value)

\* The callback of radio.onReceivedValue with a return in the default case:
\* a key of an unknown type is not passed on
onReceivedValue_strict(w, p, messageType, value) ==
    IF w.eventListeners[p][messageType] = << >> THEN w
    ELSE CASE charAt0(messageType) = "n" ->
                  callCallbacks(w, p, messageType, 1, value)
           [] charAt0(messageType) = "c" ->
                  callCallbacks(w, p, messageType, 1, numberToCoordinates(value))
           [] OTHER -> w

onReceivedValue(w, p, messageType, value) ==
    LET key == messageType
    IN  IF key \notin DOMAIN w.eventListeners[p]
           \/ w.eventListeners[p][key] = << >>
        THEN w
        ELSE LET messageValue ==
                     CASE charAt0(key) = "n" -> value
                       [] charAt0(key) = "c" -> numberToCoordinates(value)
                       [] OTHER -> value
             IN  callCallbacks(w, p, key, 1, messageValue)

\* A Button.AB event: the handlers registered for it, in registration order
RECURSIVE callButtonListeners(_, _, _)
callButtonListeners(w, p, i) ==
    IF i > Len(w.buttonListeners[p]) THEN w
    ELSE CHOOSE r \in
             { callButtonListeners(w1, p, i + 1) :
                 w1 \in { IF w.buttonListeners[p][i] = "join"
                          THEN joinHandler(w, p)
                          ELSE confirmAttack(w, p) } } : TRUE

(***************************************************************************)
(* Cursor                                                                  *)
(***************************************************************************)
\* Cursor.normalizeCoordinates with 6 in the place of 5
normalizeCoordinates_six(c) ==
    LET x1 == jsRem(c[1], 6)
        y1 == jsRem(c[2], 6)
    IN  << IF x1 < 0 THEN x1 + 6 ELSE x1, IF y1 < 0 THEN y1 + 6 ELSE y1 >>

\* Cursor.normalizeCoordinates
normalizeCoordinates(c) ==
    LET x1 == jsRem(c[1], 5)
        y1 == jsRem(c[2], 5)
    IN  << IF x1 < 0 THEN x1 + 5 ELSE x1, IF y1 < 0 THEN y1 + 5 ELSE y1 >>

\* Cursor.moveCursor
moveCursor(c, x, y) == normalizeCoordinates(<< c[1] + x, c[2] + y >>)

(***************************************************************************)
(* Initial state: both devices just constructed (new Game())               *)
(***************************************************************************)
NoProbe == [fn |-> "none", ships |-> << >>, coordinate |-> << 0, 0 >>,
            other |-> << 0, 0 >>, number |-> 0, result |-> FALSE,
            key |-> << >>, sent |-> 0, registered |-> << >>, calls |-> << >>,
            kind |-> "", kinds |-> { }]

\* Game's field initialisers and constructor, which calls connect()
InitGame ==
    /\ state = [p \in Peers |-> GameState.connecting]
    /\ otherPlayerState = [p \in Peers |-> GameState.connecting]
    /\ playerNumber = [p \in Peers |-> PlayerNumber.notConnected]
    /\ currentTurn = [p \in Peers |-> PlayerNumber.one]
    /\ shipsPlaced = [p \in Peers |-> << >>]
    /\ cursor = [p \in Peers |-> normalizeCoordinates(<< 0, 0 >>)]
    /\ playerId = [p \in Peers |-> p]
    /\ eventListeners =
           [p \in Peers |->
               [k \in Keys |->
                   CASE k = RadioMessageEnum.playerJoined -> << "playerJoined" >>
                     [] k = RadioMessageEnum.proceedingToSetup -> << "proceedingToSetup" >>
                     [] OTHER -> << >>]]
    /\ buttonListeners = [p \in Peers |-> << "join" >>]
    /\ pc = [p \in Peers |-> "idle"]
    /\ shipIndex = [p \in Peers |-> 0]
    /\ shipCount = [p \in Peers |-> 0]
    /\ net = EmptyBag
    /\ moves = 0

Init == InitGame /\ probe = NoProbe

(***************************************************************************)
(* Events                                                                  *)
(***************************************************************************)
\* Packets broadcast by p that the radio has not handed over yet
InFlightFrom(p) ==
    BagCardinality([m \in { n \in BagToSet(net) : n.to = Other(p) } |-> net[m]])

\* The operator presses A+B: join gesture, or confirm of an attack
ButtonAB(p) ==
    /\ InFlightFrom(p) < MaxInFlight
    /\ \E w \in { callButtonListeners(World, p, 1) } : Commit(w)
    /\ UNCHANGED << moves, probe >>

\* The cursor is read by the placement loop and by a confirm that attacks
CursorInUse(p) ==
    \/ pc[p] = "placing"
    \/ state[p] = GameState.playing /\ isMyTurn(World, p)

\* The operator presses A: the cursor moves down
ButtonA(p) ==
    /\ moves < MaxMoves
    /\ CursorInUse(p)
    /\ cursor' = [cursor EXCEPT ![p] = moveCursor(@, 0, 1)]
    /\ moves' = moves + 1
    /\ UNCHANGED << state, otherPlayerState, playerNumber, currentTurn,
                    shipsPlaced, playerId, eventListeners, buttonListeners,
                    pc, shipIndex, shipCount, net, probe >>

\* The operator presses B: the cursor moves right
ButtonB(p) ==
    /\ moves < MaxMoves
    /\ CursorInUse(p)
    /\ cursor' = [cursor EXCEPT ![p] = moveCursor(@, 1, 0)]
    /\ moves' = moves + 1
    /\ UNCHANGED << state, otherPlayerState, playerNumber, currentTurn,
                    shipsPlaced, playerId, eventListeners, buttonListeners,
                    pc, shipIndex, shipCount, net, probe >>

\* The radio hands a packet to the peer it was broadcast to
Receive(m) ==
    /\ BagIn(m, net)
    /\ \E w \in { onReceivedValue([World EXCEPT !.net = @ (-) SetToBag({m})],
                                  m.to, m.key, m.value) } : Commit(w)
    /\ UNCHANGED << moves, probe >>

\* basic.pause(1000) of a handshake handler is over: placeShips is entered
PauseOver(p) ==
    /\ pc[p] = "pause"
    /\ \E w \in { placeShips(World, p) } : Commit(w)
    /\ UNCHANGED << moves, probe >>

\* basic.pause(100) of the placement loop is over: the A+B button is polled
PlacementPoll(p, pressed) ==
    /\ pc[p] = "placing"
    /\ \E w \in { placeShipsPoll(World, p, pressed) } : Commit(w)
    /\ UNCHANGED << moves, probe >>

PressAB == \E p \in Peers : ButtonAB(p)
PressA == \E p \in Peers : ButtonA(p)
PressB == \E p \in Peers : ButtonB(p)
Deliver == \E m \in BagToSet(net) : Receive(m)
Resume == \E p \in Peers : PauseOver(p)
Poll == \E p \in Peers, pressed \in BOOLEAN : PlacementPoll(p, pressed)

Next == PressAB \/ PressA \/ PressB \/ Deliver \/ Resume \/ Poll

\* The session.  No step is forced: a packet that stays in flight for ever
\* is a packet the radio lost.
Spec == Init /\ [][Next]_vars

(***************************************************************************)
(* Specifications with the scheduling the claims assume                    *)
(***************************************************************************)
\* Every peer keeps receiving while packets are in flight towards it, and
\* every basic.pause(1000) returns
DeliverTo(p) == \E m \in BagToSet(net) : m.to = p /\ Receive(m)

Fairness ==
    /\ \A p \in Peers : WF_vars(DeliverTo(p))
    /\ \A p \in Peers : WF_vars(PauseOver(p))

\* The session with the cursors left where they stand: what the handshake and
\* the start of play do does not read the cursor
NextStill == PressAB \/ Deliver \/ Resume \/ Poll

\* The session over a radio that loses nothing
SpecFair == Init /\ [][NextStill]_vars /\ Fairness

\* A packet of the key is in flight towards p
InFlightTo(p, key) == \E m \in BagToSet(net) : m.to = p /\ m.key = key

\* Only one operator performs the join gesture: a peer towards which a
\* playerJoined is in flight does not press A+B while it is connecting
PressABOneJoiner ==
    \E p \in Peers :
        /\ state[p] = GameState.connecting
               => ~InFlightTo(p, RadioMessageEnum.playerJoined)
        /\ ButtonAB(p)

NextOneJoiner == PressABOneJoiner \/ Deliver \/ Resume \/ Poll

SpecOneJoiner == Init /\ [][NextOneJoiner]_vars /\ Fairness

\* Both peers broadcast shipsPlaced before either observes the other's: a
\* shipsPlaced is handed only to a peer whose own placement is over
DeliverRace ==
    \E m \in BagToSet(net) :
        /\ m.key = RadioMessageEnum.shipsPlaced => pc[m.to] = "done"
        /\ Receive(m)

NextRace == PressAB \/ PressA \/ PressB \/ DeliverRace \/ Resume \/ Poll

SpecRace == Init /\ [][NextRace]_vars

(***************************************************************************)
(* The session within range of devices that are not part of it: every      *)
(* micro:bit of the radio group hears every broadcast of the group         *)
(***************************************************************************)
\* Player ids of devices outside the session
StrayIds == { 3 }

\* A wire key that is not in the catalog
UnknownKey == << "x", "X", "x" >>

\* What a device outside the session is taken to broadcast: the reply to a
\* third device's join gesture, and a key of another program
StrayKeys == { RadioMessageEnum.proceedingToSetup, UnknownKey }

IsStray(m) == m.key \in StrayKeys /\ m.value \in StrayIds

\* A broadcast of a device outside the session comes within reach of p; one
\* such packet is in flight at a time
Stray(p, key, id) ==
    /\ ~\E m \in BagToSet(net) : IsStray(m)
    /\ net' = net (+) SetToBag({Packet(p, key, id)})
    /\ UNCHANGED << state, otherPlayerState, playerNumber, currentTurn,
                    shipsPlaced, cursor, playerId, eventListeners,
                    buttonListeners, pc, shipIndex, shipCount, moves, probe >>

Overhear == \E p \in Peers, key \in StrayKeys, id \in StrayIds : Stray(p, key, id)

NextStray == Next \/ Overhear

SpecStray == Init /\ [][NextStray]_vars

\* The same with the cursors left where they stand
NextStrayStill == NextStill \/ Overhear

SpecStrayStill == Init /\ [][NextStrayStill]_vars

\* The messages whose callbacks a Game registers only in placeShips or in
\* playGame
EarlyKeys ==
    { RadioMessageEnum.shipsPlaced, RadioMessageEnum.startGame,
      RadioMessageEnum.attack, RadioMessageEnum.hit, RadioMessageEnum.miss }

\* A device outside the session broadcasts such a message within reach of p
\* while p has no callback for it, and the platform hands it to the radio of
\* p; probe keeps the last such message
Early(p, key, id) ==
    /\ eventListeners[p][key] = << >>
    /\ \E w \in { onReceivedValue(World, p, key, id) } : Commit(w)
    /\ probe' = [probe EXCEPT !.fn = "early", !.key = key, !.number = p]
    /\ UNCHANGED moves

TooEarly == \E p \in Peers, key \in EarlyKeys, id \in StrayIds : Early(p, key, id)

NextEarly == NextStill \/ TooEarly

SpecEarly == Init /\ [][NextEarly]_vars

\* The operator of a peer that has placed its ships and may attack presses A
\* or B as often as they like; the cursors are left where they stand until
\* then, so that every fleet lies at the origin
SteerA(p) ==
    /\ pc[p] = "done"
    /\ state[p] = GameState.playing
    /\ isMyTurn(World, p)
    /\ cursor' = [cursor EXCEPT ![p] = moveCursor(@, 0, 1)]
    /\ UNCHANGED << state, otherPlayerState, playerNumber, currentTurn,
                    shipsPlaced, playerId, eventListeners, buttonListeners,
                    pc, shipIndex, shipCount, net, moves, probe >>

SteerB(p) ==
    /\ pc[p] = "done"
    /\ state[p] = GameState.playing
    /\ isMyTurn(World, p)
    /\ cursor' = [cursor EXCEPT ![p] = moveCursor(@, 1, 0)]
    /\ UNCHANGED << state, otherPlayerState, playerNumber, currentTurn,
                    shipsPlaced, playerId, eventListeners, buttonListeners,
                    pc, shipIndex, shipCount, net, moves, probe >>

Steer == \E p \in Peers : SteerA(p) \/ SteerB(p)

NextSteer == NextStill \/ Steer

SpecSteer == Init /\ [][NextSteer]_vars

(***************************************************************************)
(* Pure calls: isHit on fleets and coordinates drawn from bounded sets      *)
(***************************************************************************)
Grid == { << x, y >> : x \in 0..4, y \in 0..4 }

ProbeShip ==
    { Ship(name, c[1], c[2], o) :
        name \in {"Cruiser", "Destroyer"}, c \in Grid,
        o \in {ShipOrientation.horizontal, ShipOrientation.vertical} }

ProbeFleet == UNION { [1..n -> ProbeShip] : n \in 0..MaxProbeShips }

InitProbe ==
    /\ InitGame
    /\ probe \in { [NoProbe EXCEPT !.ships = f, !.coordinate = c] :
                     f \in ProbeFleet, c \in Grid }

CallIsHit ==
    /\ probe.fn = "none"
    /\ probe' = [probe EXCEPT !.fn = "isHit",
                              !.result = isHit(probe.ships, probe.coordinate)]
    /\ UNCHANGED << state, otherPlayerState, playerNumber, currentTurn,
                    shipsPlaced, cursor, playerId, eventListeners,
                    buttonListeners, pc, shipIndex, shipCount, net, moves >>

SpecProbe == InitProbe /\ [][CallIsHit]_vars

(***************************************************************************)
(* Pure calls: getCoordinates and isCoordinatesValid on one ship of any     *)
(* class of the catalog, with its head on the grid                         *)
(***************************************************************************)
AnyShip ==
    { Ship(shipClasses[k].name, c[1], c[2], o) :
        k \in 1..Len(shipClasses), c \in Grid,
        o \in {ShipOrientation.horizontal, ShipOrientation.vertical} }

InitShip ==
    /\ InitGame
    /\ probe \in { [NoProbe EXCEPT !.ships = << s >>] : s \in AnyShip }

CallGetCoordinates ==
    /\ probe.fn = "none"
    /\ probe' = [probe EXCEPT !.fn = "getCoordinates",
                              !.result = getCoordinates(probe.ships[1])]
    /\ UNCHANGED << state, otherPlayerState, playerNumber, currentTurn,
                    shipsPlaced, cursor, playerId, eventListeners,
                    buttonListeners, pc, shipIndex, shipCount, net, moves >>

CallIsCoordinatesValid ==
    /\ probe.fn = "none"
    /\ probe' = [probe EXCEPT !.fn = "isCoordinatesValid",
                              !.result = isCoordinatesValid(probe.ships[1])]
    /\ UNCHANGED << state, otherPlayerState, playerNumber, currentTurn,
                    shipsPlaced, cursor, playerId, eventListeners,
                    buttonListeners, pc, shipIndex, shipCount, net, moves >>

NextShip == CallGetCoordinates \/ CallIsCoordinatesValid

SpecShip == InitShip /\ [][NextShip]_vars

(***************************************************************************)
(* Pure calls: the coordinate mapping on the cells of the grid and on the  *)
(* numbers that stand for them                                             *)
(***************************************************************************)
CellNumbers == 0..24

InitCodec ==
    /\ InitGame
    /\ probe \in { [NoProbe EXCEPT !.coordinate = c, !.other = o, !.number = v] :
                     c \in Grid, o \in Grid, v \in CellNumbers }

\* The probe after a call of fn that returned r
CodecCall(fn, r) ==
    /\ probe.fn = "none"
    /\ probe' = [probe EXCEPT !.fn = fn, !.result = r]
    /\ UNCHANGED << state, otherPlayerState, playerNumber, currentTurn,
                    shipsPlaced, cursor, playerId, eventListeners,
                    buttonListeners, pc, shipIndex, shipCount, net, moves >>

\* coordinatesToNumber on two cells
CallCoordinatesToNumber ==
    CodecCall("coordinatesToNumber",
              << coordinatesToNumber(probe.coordinate),
                 coordinatesToNumber(probe.other) >>)

CallNumberToCoordinates ==
    CodecCall("numberToCoordinates", numberToCoordinates(probe.number))

\* What sendValue followed by onReceivedValue does to a coordinate
CallEncodeDecode ==
    CodecCall("encodeDecode",
              numberToCoordinates(coordinatesToNumber(probe.coordinate)))

CallDecodeEncode ==
    CodecCall("decodeEncode",
              coordinatesToNumber(numberToCoordinates(probe.number)))

NextCodec ==
    \/ CallCoordinatesToNumber
    \/ CallNumberToCoordinates
    \/ CallEncodeDecode
    \/ CallDecodeEncode

SpecCodec == InitCodec /\ [][NextCodec]_vars

(***************************************************************************)
(* The router on its own: peer 1 sends through its GameRadio, peer 2 has a *)
(* GameRadio on which any callbacks are registered for any keys, among     *)
(* them keys that are not in the catalog.  No Game is constructed, so the  *)
(* only callbacks are the recording ones.  probe.registered is the history *)
(* of the calls of on, kept apart from the eventListeners of the object.   *)
(***************************************************************************)
MaxHandlers == 3

\* A wire key that is not in the catalog and starts like a coordinate key
UnknownCoordinateKey == << "c", "Z", "z" >>

RouterKeys ==
    { RadioMessageEnum.playerJoined, RadioMessageEnum.attack, UnknownKey }

\* Every key of the catalog and two keys that are not in it
WireKeys == Keys \cup { UnknownKey, UnknownCoordinateKey }

\* Integer payloads, one of them no cell number of the grid
RouterIds == { 7, 30 }

\* The values a caller of sendValue passes for the key: every cell for a
\* coordinate key of the catalog, two cells for the other coordinate key
RouterPayloads(key) ==
    IF key \in Keys /\ charAt0(key) = "c" THEN Grid
    ELSE IF charAt0(key) = "c" THEN { << 1, 2 >>, << 4, 3 >> }
    ELSE RouterIds

\* Two radios just constructed, no Game; K are the keys in use
InitRadio(K) ==
    /\ state = [p \in Peers |-> GameState.connecting]
    /\ otherPlayerState = [p \in Peers |-> GameState.connecting]
    /\ playerNumber = [p \in Peers |-> PlayerNumber.notConnected]
    /\ currentTurn = [p \in Peers |-> PlayerNumber.one]
    /\ shipsPlaced = [p \in Peers |-> << >>]
    /\ cursor = [p \in Peers |-> normalizeCoordinates(<< 0, 0 >>)]
    /\ playerId = [p \in Peers |-> p]
    /\ eventListeners = [p \in Peers |-> [k \in K |-> << >>]]
    /\ buttonListeners = [p \in Peers |-> << >>]
    /\ pc = [p \in Peers |-> "idle"]
    /\ shipIndex = [p \in Peers |-> 0]
    /\ shipCount = [p \in Peers |-> 0]
    /\ net = EmptyBag
    /\ moves = 0
    /\ probe = [NoProbe EXCEPT !.registered = [k \in K |-> << >>]]

InitRouter == InitRadio(RouterKeys)

\* The number of calls of on so far
Registrations ==
    LET RECURSIVE Sum(_)
        Sum(K) == IF K = { } THEN 0
                  ELSE LET k == CHOOSE k \in K : TRUE
                       IN  Len(probe.registered[k]) + Sum(K \ { k })
    IN  Sum(RouterKeys)

\* gameRadio.on(key, handler) on the radio of peer 2
RouterOn(key, handler) ==
    /\ Registrations < MaxHandlers
    /\ \E w \in { on(World, 2, key, handler) } : Commit(w)
    /\ probe' = [probe EXCEPT !.registered[key] = Append(@, handler)]
    /\ UNCHANGED moves

\* gameRadio.on(key, handler) for every key of K on the radio of peer 2,
\* which had no callbacks
WireOn(K) ==
    /\ \A key \in K : eventListeners[2][key] = << >>
    /\ eventListeners' =
           [eventListeners EXCEPT ![2] =
               [key \in K |-> on(World, 2, key, "probeA").eventListeners[2][key]]]
    /\ probe' = [probe EXCEPT !.registered = [key \in K |-> << "probeA" >>]]
    /\ UNCHANGED << state, otherPlayerState, playerNumber, currentTurn,
                    shipsPlaced, cursor, playerId, buttonListeners, pc,
                    shipIndex, shipCount, net, moves >>

\* gameRadio.sendValue(key, payload) on the radio of peer 1
RouterSend(key, payload) ==
    /\ net = EmptyBag
    /\ \E w \in { sendValue(World, 1, key, payload) } : Commit(w)
    /\ probe' = [probe EXCEPT !.fn = "sendValue", !.key = key,
                              !.sent = payload, !.calls = << >>]
    /\ UNCHANGED moves

\* The platform hands a packet to the callback of radio.onReceivedValue
RouterReceive(m) ==
    /\ m \in BagToSet(net)
    /\ \E w \in { onReceivedValue([World EXCEPT !.net = @ (-) SetToBag({m})],
                                   m.to, m.key, m.value) } :
           /\ Commit(w)
           /\ probe' = [probe EXCEPT !.fn = "onReceivedValue",
                                     !.number = m.value, !.calls = w.calls]
    /\ UNCHANGED moves

Register == \E key \in RouterKeys, handler \in ProbeHandlers : RouterOn(key, handler)

Send == \E key \in RouterKeys : \E payload \in RouterPayloads(key) : RouterSend(key, payload)

Hand == \E m \in BagToSet(net) : RouterReceive(m)

NextRouter == Register \/ Send \/ Hand

SpecRouter == InitRouter /\ [][NextRouter]_vars

\* The wire: every key, one callback for each once peer 2 listens
InitWire == InitRadio(WireKeys)

Listen == WireOn(WireKeys)

Emit == \E key \in WireKeys : \E payload \in RouterPayloads(key) : RouterSend(key, payload)

NextWire == Listen \/ Emit \/ Hand

SpecWire == InitWire /\ [][NextWire]_vars

\* The integers another device of the radio group may put on the wire: the
\* first and the last cell number and their neighbours outside the grid
ForeignValues == { -1, 0, 24, 25 }

\* A device of the radio group that is no GameRadio calls radio.sendValue
\* with the key and the integer, within reach of peer 2
Foreign(key, value) ==
    /\ net = EmptyBag
    /\ \E w \in { radioSendValue(World, 1, key, value) } : Commit(w)
    /\ probe' = [probe EXCEPT !.fn = "foreign", !.key = key,
                              !.number = value, !.calls = << >>]
    /\ UNCHANGED moves

Intrude == \E key \in WireKeys, value \in ForeignValues : Foreign(key, value)

NextForeign == Listen \/ Intrude \/ Hand

SpecForeign == InitWire /\ [][NextForeign]_vars

\* The kinds of message: the names of the entries of RadioMessageEnum
Kinds == DOMAIN RadioMessageEnum

\* The first gameRadio.on(RadioMessageEnum.kind, handler) on the radio of
\* peer 2; probe.kinds are the kinds that have a callback
KindOn(kind) ==
    /\ kind \notin probe.kinds
    /\ \E w \in { on(World, 2, RadioMessageEnum[kind], "probeA") } : Commit(w)
    /\ probe' = [probe EXCEPT !.kinds = @ \cup { kind }]
    /\ UNCHANGED moves

\* gameRadio.sendValue(RadioMessageEnum.kind, payload) on the radio of peer 1
KindSend(kind, payload) ==
    /\ net = EmptyBag
    /\ \E w \in { sendValue(World, 1, RadioMessageEnum[kind], payload) } : Commit(w)
    /\ probe' = [probe EXCEPT !.fn = "sendValue", !.kind = kind,
                              !.key = RadioMessageEnum[kind],
                              !.sent = payload, !.calls = << >>]
    /\ UNCHANGED moves

Subscribe == \E kind \in Kinds : KindOn(kind)

Announce ==
    \E kind \in Kinds :
        \E payload \in (IF charAt0(RadioMessageEnum[kind]) = "c"
                         THEN { << 1, 2 >>, << 4, 3 >> } ELSE RouterIds) :
            KindSend(kind, payload)

NextKinds == Subscribe \/ Announce \/ Hand

SpecKinds == InitRadio(Keys) /\ [][NextKinds]_vars

(***************************************************************************)
(* Properties                                                              *)
(***************************************************************************)
Playing(p) == state[p] = GameState.playing

\* Number of times p has run playGame: each run registers one attack callback
PlayBegun(p) == Len(eventListeners[p][RadioMessageEnum.attack])

\* C1 (as claimed): when both peers broadcast shipsPlaced before observing
\* the other's, a peer that is playing has begun play exactly once; the
\* startGame that arrives afterwards does not begin play again.
C1_PlayBegunOnce == \A p \in Peers : Playing(p) => PlayBegun(p) = 1

\* C2: over a radio that loses nothing, once both peers have finished
\* placement both are eventually playing, whatever the order of delivery of
\* shipsPlaced and startGame.
C2_BothReachPlaying ==
    (\A p \in Peers : pc[p] = "done") ~> (\A p \in Peers : Playing(p))

\* C2 witness: both placements are over, both shipsPlaced are still in
\* flight and nobody is playing yet.
C2_Witness ==
    /\ \A p \in Peers : pc[p] = "done" /\ ~Playing(p)
    /\ \A p \in Peers : InFlightTo(p, RadioMessageEnum.shipsPlaced)

C4_LateHandshakeIsNoOp ==
    [][\A m \in BagToSet(net) :
          (/\ m.key \in {RadioMessageEnum.playerJoined,
                         RadioMessageEnum.proceedingToSetup}
           /\ state[m.to] # GameState.connecting
           /\ Receive(m))
          => /\ UNCHANGED << state, otherPlayerState, playerNumber,
                             currentTurn, shipsPlaced, eventListeners,
                             buttonListeners, pc, shipIndex, shipCount >>
             /\ net' = net (-) SetToBag({m})]_vars

\* C4 witness: both peers answered a playerJoined as player two, so each
\* proceedingToSetup reached a peer that had left connecting, and all
\* packets have been handed over.
C4_Witness ==
    /\ \A p \in Peers : playerNumber[p] = PlayerNumber.two
    /\ net = EmptyBag

\* C5 (as claimed): once both peers have left connecting, one is player one
\* and the other is player two.
C5_TwoRoles ==
    (\A p \in Peers : state[p] # GameState.connecting)
    => { playerNumber[p] : p \in Peers } = {PlayerNumber.one, PlayerNumber.two}

\* C6 (as claimed): when both peers are playing as player one and player
\* two and every packet has been handed over, one of them is allowed to
\* attack.
C6_SomeoneMayAttack ==
    (/\ \A p \in Peers : Playing(p)
     /\ { playerNumber[p] : p \in Peers } = {PlayerNumber.one, PlayerNumber.two}
     /\ net = EmptyBag)
    => \E p \in Peers : isMyTurn(World, p)

\* C7: the phase of a peer never moves backward in the declared order.
C7_PhaseMonotone == [][\A p \in Peers : state'[p] >= state[p]]_vars

\* C7 witness: a peer that is playing has processed a late startGame (it
\* has begun play a second time) and is still playing.
C7_Witness == \E p \in Peers : Playing(p) /\ PlayBegun(p) = 2

\* C8: the player number changes only from notConnected to one or two, and
\* only in the step that leaves connecting.
C8_RoleAssignedOnce ==
    [][\A p \in Peers :
          playerNumber'[p] # playerNumber[p]
          => /\ playerNumber[p] = PlayerNumber.notConnected
             /\ playerNumber'[p] \in {PlayerNumber.one, PlayerNumber.two}
             /\ state[p] = GameState.connecting
             /\ state'[p] = GameState.setup]_vars

\* C8 witness: a peer that was assigned player one during the handshake is
\* playing, many events later, still as player one.
C8_Witness == \E p \in Peers : Playing(p) /\ playerNumber[p] = PlayerNumber.one

\* C9: between handlers, a peer has no player number exactly when it is
\* connecting.
C9_RoleIffPastConnecting ==
    \A p \in Peers :
        playerNumber[p] = PlayerNumber.notConnected
        <=> state[p] = GameState.connecting

\* C9 witness: a peer stands in setup, at the pause before placeShips, with
\* its player number assigned, while the other is still connecting.
C9_Witness ==
    \E p \in Peers :
        /\ state[p] = GameState.setup /\ pc[p] = "pause"
        /\ playerNumber[p] = PlayerNumber.two
        /\ state[Other(p)] = GameState.connecting

\* C10: isHit(coordinate) is true exactly when the coordinate is one of the
\* occupied cells of some ship of the fleet, the occupied cells of a ship
\* being length consecutive cells from its head, increasing in x when it is
\* horizontal and in y when it is vertical.
C10_IsHitExact ==
    probe.fn = "isHit"
    => (probe.result
        <=> \E k \in 1..Len(probe.ships) :
              LET ship == probe.ships[k]
              IN  \E i \in 0..(ship.size - 1) :
                    probe.coordinate =
                        IF ship.orientation = ShipOrientation.horizontal
                        THEN << ship.x + i, ship.y >>
                        ELSE << ship.x, ship.y + i >>)

\* C10 witness: the fleet is one length-2 horizontal ship at head (0,0) and
\* isHit((1,0)) has answered true.
C10_Witness ==
    /\ probe.fn = "isHit"
    /\ probe.ships = << Ship("Destroyer", 0, 0, ShipOrientation.horizontal) >>
    /\ probe.coordinate = << 1, 0 >>
    /\ probe.result = TRUE

\* C11: a ship of length L with head (x, y) occupies the L cells (x+i, y)
\* when horizontal and (x, y+i) when vertical, i in 0..L-1, in that order,
\* and isCoordinatesValid is true exactly when all of them lie in
\* [0,4] x [0,4].
C11_PlacementValidity ==
    LET ship == probe.ships[1]
        L == findShipClass(ship.name, 1).size
        cell(i) == IF ship.orientation = ShipOrientation.horizontal
                   THEN << ship.x + i, ship.y >>
                   ELSE << ship.x, ship.y + i >>
    IN  /\ probe.fn = "getCoordinates"
           => probe.result = [i \in 1..L |-> cell(i - 1)]
        /\ probe.fn = "isCoordinatesValid"
           => (probe.result
               <=> \A i \in 0..(L - 1) :
                     cell(i)[1] \in 0..4 /\ cell(i)[2] \in 0..4)

\* C11 witness: the length-5 horizontal ship with head (1,0), whose head is
\* on the grid and whose last cell (5,0) is not, has been found invalid.
C11_Witness ==
    /\ probe.fn = "isCoordinatesValid"
    /\ probe.ships = << Ship("Carrier", 1, 0, ShipOrientation.horizontal) >>
    /\ probe.result = FALSE

\* C12: on the 25 cells numberToCoordinates undoes coordinatesToNumber,
\* coordinatesToNumber is injective with its values in 0..24, on 0..24
\* coordinatesToNumber undoes numberToCoordinates, and (2,3), (0,0), (1,0),
\* (0,1) map to 17, 0, 1, 5 while 17 maps back to (2,3).
C12_CoordinateRoundTrip ==
    /\ probe.fn = "encodeDecode" => probe.result = probe.coordinate
    /\ probe.fn = "decodeEncode" => probe.result = probe.number
    /\ probe.fn = "coordinatesToNumber"
       => /\ probe.result[1] \in 0..24
          /\ probe.result[1] = probe.result[2]
             => probe.coordinate = probe.other
          /\ probe.coordinate = << 2, 3 >> => probe.result[1] = 17
          /\ probe.coordinate = << 0, 0 >> => probe.result[1] = 0
          /\ probe.coordinate = << 1, 0 >> => probe.result[1] = 1
          /\ probe.coordinate = << 0, 1 >> => probe.result[1] = 5
    /\ probe.fn = "numberToCoordinates"
       => (probe.number = 17 => probe.result = << 2, 3 >>)

\* C12 witness: the cell (2,3) has been encoded and decoded and came back
\* as (2,3).
C12_Witness ==
    /\ probe.fn = "encodeDecode"
    /\ probe.coordinate = << 2, 3 >>
    /\ probe.result = << 2, 3 >>

\* C13 (as claimed): a proceedingToSetup whose id differs from the local id, a
\* handshake or setup message that arrives in the wrong phase, a message with
\* a key outside the catalog and a placement attempt with cells off the grid
\* are each discarded: phase, role, turn marker and fleet of the peer stay as
\* they are, nothing is broadcast, and its handlers and the fiber of
\* placeShips stay as they are, so that later events are processed.
C13_ErrorsDiscarded ==
    [][LET ProtocolMismatch(m) ==
               /\ m.key = RadioMessageEnum.proceedingToSetup
               /\ m.value # playerId[m.to]
           UnexpectedPhase(m) ==
               \/ /\ m.key \in {RadioMessageEnum.playerJoined,
                                 RadioMessageEnum.proceedingToSetup}
                  /\ state[m.to] # GameState.connecting
               \/ /\ m.key = RadioMessageEnum.shipsPlaced
                  /\ state[m.to] # GameState.waitingForOtherPlayerToSetup
           UnknownMessageKey(m) == m.key \notin Keys
           InvalidPlacement(p) ==
               /\ pc[p] = "placing"
               /\ \E i \in 0..(shipClasses[shipIndex[p] + 1].size - 1) :
                      cursor[p][1] + i > 4
       IN  /\ \A m \in BagToSet(net) :
                (/\ \/ ProtocolMismatch(m)
                    \/ UnexpectedPhase(m)
                    \/ UnknownMessageKey(m)
                 /\ Receive(m))
                => /\ UNCHANGED << state, playerNumber, currentTurn,
                                   shipsPlaced, eventListeners,
                                   buttonListeners, pc, shipIndex, shipCount >>
                   /\ net' = net (-) SetToBag({m})
           /\ \A p \in Peers :
                (InvalidPlacement(p) /\ PlacementPoll(p, TRUE))
                => UNCHANGED << state, playerNumber, currentTurn, shipsPlaced,
                                eventListeners, buttonListeners, pc,
                                shipIndex, shipCount, net >>]_vars

\* C14: no peer is ever in phase gameOver.
C14_GameOverUnreachable == \A p \in Peers : state[p] # GameState.gameOver

\* C14 witness: a peer is playing, its attack has been answered with a hit
\* or a miss and that answer has been handed over.
C14_Witness ==
    \E p \in Peers :
        /\ Playing(p) /\ Playing(Other(p))
        /\ playerNumber[p] = PlayerNumber.one
        /\ currentTurn[p] = PlayerNumber.two
        /\ net = EmptyBag

\* C15: a peer that begins play holds the turn marker of player one; a
\* confirm (A+B) of a playing peer whose player number equals its turn
\* marker broadcasts exactly one attack, carrying the cell under the cursor,
\* and hands its turn marker to the other player number; phase, player
\* number and fleet stay as they are.
C15_AttackOnLocalTurn ==
    [][\A p \in Peers :
          /\ (~Playing(p) /\ state'[p] = GameState.playing)
             => currentTurn'[p] = PlayerNumber.one
          /\ (Playing(p) /\ playerNumber[p] = currentTurn[p] /\ ButtonAB(p))
             => /\ net' = net (+) SetToBag({
                          [to |-> Other(p), key |-> RadioMessageEnum.attack,
                           value |-> cursor[p][1] + 5 * cursor[p][2]] })
                /\ currentTurn'[p] =
                       IF playerNumber[p] = PlayerNumber.one
                       THEN PlayerNumber.two ELSE PlayerNumber.one
                /\ currentTurn'[Other(p)] = currentTurn[Other(p)]
                /\ UNCHANGED << state, playerNumber, shipsPlaced >>]_vars

\* C15 witness: player one, playing, has confirmed an attack on the cell
\* (1,0): the attack is in flight and its turn marker is player two.
C15_Witness ==
    \E p \in Peers :
        /\ Playing(p)
        /\ playerNumber[p] = PlayerNumber.one
        /\ currentTurn[p] = PlayerNumber.two
        /\ BagIn([to |-> Other(p), key |-> RadioMessageEnum.attack,
                  value |-> 1], net)

\* C16: a confirm (A+B) of a playing peer whose player number differs from
\* its turn marker broadcasts nothing and leaves turn marker, phase, player
\* number and fleet as they are.
C16_OutOfTurnRejected ==
    [][\A p \in Peers :
          (Playing(p) /\ playerNumber[p] # currentTurn[p] /\ ButtonAB(p))
          => UNCHANGED << net, currentTurn, state, playerNumber,
                          shipsPlaced >>]_vars

\* C16 witness: both peers are playing, no packet is in flight, and player
\* two, whose turn marker still names player one, may press A+B.
C16_Witness ==
    \E p \in Peers :
        /\ Playing(p) /\ Playing(Other(p))
        /\ playerNumber[p] = PlayerNumber.two
        /\ currentTurn[p] = PlayerNumber.one
        /\ playerNumber[Other(p)] = PlayerNumber.one
        /\ net = EmptyBag
        /\ ENABLED ButtonAB(p)

\* C17 (as claimed): a peer that has begun play and is handed an attack
\* broadcasts exactly one reply: hit when the attacked cell is a cell of a
\* ship of its fleet, miss otherwise, carrying the cell it received.
C17_OneReplyPerAttack ==
    [][\A m \in BagToSet(net) :
          (/\ m.key = RadioMessageEnum.attack
           /\ PlayBegun(m.to) >= 1
           /\ Receive(m))
          => LET x == m.value % 5
                 y == m.value \div 5
                 fleet == shipsPlaced[m.to]
                 struck ==
                     \E k \in 1..Len(fleet) :
                        \E i \in 0..(fleet[k].size - 1) :
                           << x, y >> =
                               IF fleet[k].orientation
                                     = ShipOrientation.horizontal
                               THEN << fleet[k].x + i, fleet[k].y >>
                               ELSE << fleet[k].x, fleet[k].y + i >>
                 reply == [to |-> Other(m.to),
                           key |-> IF struck THEN RadioMessageEnum.hit
                                   ELSE RadioMessageEnum.miss,
                           value |-> m.value]
             IN  net' = (net (-) SetToBag({m})) (+) SetToBag({reply})]_vars

\* C18: the receipt of an attack, of a hit or of a miss leaves fleet, phase,
\* player number and turn marker as they are, and the receipt of a hit or of
\* a miss broadcasts nothing.
C18_ReceiptUpdatesNothing ==
    [][\A m \in BagToSet(net) :
          (/\ m.key \in {RadioMessageEnum.attack, RadioMessageEnum.hit,
                         RadioMessageEnum.miss}
           /\ Receive(m))
          => /\ UNCHANGED << shipsPlaced, state, playerNumber, currentTurn >>
             /\ m.key \in {RadioMessageEnum.hit, RadioMessageEnum.miss}
                => net' = net (-) SetToBag({m})]_vars

\* C18 witness: a playing peer has been handed an attack on a cell of its
\* fleet, and its hit is in flight towards the attacker.
C18_Witness ==
    \E p \in Peers :
        /\ Playing(p)
        /\ isHit(shipsPlaced[p], << 0, 0 >>)
        /\ BagIn([to |-> Other(p), key |-> RadioMessageEnum.hit, value |-> 0],
                 net)

\* C19 (as claimed): a peer is in phase waitingForOtherPlayerToSetup only
\* when its fleet holds every ship the catalog requires, its shipsPlaced is
\* broadcast only then, and while it still has ships to place its phase is
\* setup.
C19_PlacementBeforeWaiting ==
    LET AllPlaced(p) ==
            \A k \in 1..Len(shipClasses) :
                Cardinality({ j \in 1..Len(shipsPlaced[p]) :
                                shipsPlaced[p][j].name = shipClasses[k].name })
                    = shipClasses[k].count
    IN  \A p \in Peers :
            /\ state[p] = GameState.waitingForOtherPlayerToSetup
               => AllPlaced(p)
            /\ InFlightTo(Other(p), RadioMessageEnum.shipsPlaced)
               => AllPlaced(p)
            /\ pc[p] = "placing" => state[p] = GameState.setup

\* C20 (as claimed): the fleet of a peer changes only by growing, and only
\* while the peer is placing ships; once its phase is playing no step adds,
\* removes or changes a ship of its fleet.
C20_FleetReadOnlyAfterSetup ==
    [][\A p \in Peers :
          /\ shipsPlaced'[p] # shipsPlaced[p]
             => /\ pc[p] = "placing"
                /\ Len(shipsPlaced'[p]) > Len(shipsPlaced[p])
                /\ SubSeq(shipsPlaced'[p], 1, Len(shipsPlaced[p]))
                       = shipsPlaced[p]
          /\ Playing(p) => shipsPlaced'[p] = shipsPlaced[p]]_vars

\* C21: a confirm during placement takes the horizontal candidate of the
\* current ship class at the cursor; when all its cells are on the grid the
\* candidate is appended to the fleet and placement moves to the next ship
\* of the catalog (or is over after the last one), otherwise fleet and
\* current ship class stay as they are and the attempt may be repeated.
\* Every ship of a fleet lies on the grid, and a completed fleet holds the
\* ships of the catalog in catalog order, of lengths 5, 4, 3, 3, 2.
C21_PlacementStep ==
    [][\A p \in Peers :
          /\ PlacementPoll(p, TRUE)
             => LET class == shipClasses[shipIndex[p] + 1]
                    x == cursor[p][1]
                    y == cursor[p][2]
                    onGrid == /\ y \in 0..4
                              /\ \A i \in 0..(class.size - 1) : x + i \in 0..4
                IN  IF onGrid
                    THEN /\ shipsPlaced'[p] =
                               Append(shipsPlaced[p],
                                      [name |-> class.name, size |-> class.size,
                                       x |-> x, y |-> y,
                                       orientation |->
                                           ShipOrientation.horizontal])
                         /\ shipIndex'[p] = shipIndex[p] + 1
                         /\ pc'[p] = IF shipIndex[p] + 1 < Len(shipClasses)
                                     THEN "placing" ELSE "done"
                    ELSE /\ UNCHANGED << shipsPlaced, shipIndex, shipCount >>
                         /\ pc'[p] = "placing"
          /\ \A k \in 1..Len(shipsPlaced'[p]) :
                LET ship == shipsPlaced'[p][k]
                IN  \A i \in 0..(ship.size - 1) :
                       /\ ship.orientation = ShipOrientation.horizontal
                       /\ ship.x + i \in 0..4
                       /\ ship.y \in 0..4
          /\ pc'[p] = "done"
             => /\ [k \in 1..Len(shipsPlaced'[p]) |-> shipsPlaced'[p][k].size]
                       = << 5, 4, 3, 3, 2 >>
                /\ [k \in 1..Len(shipsPlaced'[p]) |-> shipsPlaced'[p][k].name]
                       = [k \in 1..Len(shipClasses) |-> shipClasses[k].name]
      ]_vars

\* C21 witness: a peer has completed its fleet, the length-4 ship having
\* been placed with its head at (1,0) after a move of the cursor.
C21_Witness ==
    \E p \in Peers :
        /\ pc[p] = "done"
        /\ Len(shipsPlaced[p]) = 5
        /\ shipsPlaced[p][1].x = 0
        /\ shipsPlaced[p][2].x = 1

\* C22: a shipsPlaced handed to a peer in waitingForOtherPlayerToSetup moves
\* it to playing, broadcasts exactly one startGame carrying the local id and
\* begins play once; a shipsPlaced handed to a peer in any other phase
\* changes nothing and broadcasts nothing.
C22_ShipsPlacedHandling ==
    [][\A m \in BagToSet(net) :
          (m.key = RadioMessageEnum.shipsPlaced /\ Receive(m))
          => IF state[m.to] = GameState.waitingForOtherPlayerToSetup
             THEN /\ state'[m.to] = GameState.playing
                  /\ net' = (net (-) SetToBag({m}))
                            (+) SetToBag({[to |-> Other(m.to),
                                           key |-> RadioMessageEnum.startGame,
                                           value |-> playerId[m.to]]})
                  /\ Len(eventListeners'[m.to][RadioMessageEnum.attack])
                        = Len(eventListeners[m.to][RadioMessageEnum.attack]) + 1
                  /\ UNCHANGED << playerNumber, currentTurn, shipsPlaced >>
             ELSE /\ UNCHANGED << state, otherPlayerState, playerNumber,
                                  currentTurn, shipsPlaced, cursor,
                                  eventListeners, buttonListeners, pc,
                                  shipIndex, shipCount >>
                  /\ net' = net (-) SetToBag({m})]_vars

\* C22 witness: a peer that finished its placement has been handed the
\* other's shipsPlaced: it is playing, has begun play once, and its
\* startGame is in flight.
C22_Witness ==
    \E p \in Peers :
        /\ Playing(p) /\ PlayBegun(p) = 1 /\ pc[p] = "done"
        /\ BagIn([to |-> Other(p), key |-> RadioMessageEnum.startGame,
                  value |-> playerId[p]], net)

\* C23 (as claimed): a startGame handed to a peer in setup or in
\* waitingForOtherPlayerToSetup moves it to playing and begins play; a
\* startGame handed to a peer that is already playing does not begin play
\* again (no handler is registered) and leaves phase, player number, turn
\* marker and fleet as they are.
C23_StartGameHandling ==
    [][\A m \in BagToSet(net) :
          (m.key = RadioMessageEnum.startGame /\ Receive(m))
          => /\ state[m.to] \in {GameState.setup,
                                 GameState.waitingForOtherPlayerToSetup}
                => /\ state'[m.to] = GameState.playing
                   /\ Len(eventListeners'[m.to][RadioMessageEnum.attack])
                         = Len(eventListeners[m.to][RadioMessageEnum.attack])
                           + 1
             /\ state[m.to] = GameState.playing
                => UNCHANGED << eventListeners, buttonListeners, state,
                                playerNumber, currentTurn, shipsPlaced >>]_vars

\* C24: the join gesture (A+B) of a connecting peer broadcasts one
\* playerJoined carrying the local id; in any other phase it broadcasts no
\* playerJoined; it never changes the phase or the player number of the
\* peer.
C24_JoinOnlyInConnecting ==
    [][\A p \in Peers :
          ButtonAB(p)
          => /\ UNCHANGED << state, playerNumber >>
             /\ IF state[p] = GameState.connecting
                THEN net' = net (+) SetToBag({
                         [to |-> Other(p), key |-> RadioMessageEnum.playerJoined,
                          value |-> playerId[p]] })
                ELSE \A m \in BagToSet(net') :
                        m.key = RadioMessageEnum.playerJoined
                        => CopiesIn(m, net') = CopiesIn(m, net)]_vars

\* C24 witness: a connecting peer has made the join gesture and its
\* playerJoined is in flight, the other peer still connecting too.
C24_Witness ==
    \E p \in Peers :
        /\ state[p] = GameState.connecting
        /\ state[Other(p)] = GameState.connecting
        /\ net = SetToBag({[to |-> Other(p),
                            key |-> RadioMessageEnum.playerJoined,
                            value |-> playerId[p]]})

\* C25: a connecting peer that is handed playerJoined(otherId) broadcasts
\* exactly one proceedingToSetup whose value is otherId, becomes player two
\* in setup, records setup as the phase of the other peer and goes on to
\* placeShips, which no peer enters more than once.
C25_PlayerJoinedReply ==
    [][/\ \A m \in BagToSet(net) :
            (/\ m.key = RadioMessageEnum.playerJoined
             /\ state[m.to] = GameState.connecting
             /\ Receive(m))
            => /\ net' = (net (-) SetToBag({m}))
                         (+) SetToBag({[to |-> Other(m.to),
                                        key |-> RadioMessageEnum.proceedingToSetup,
                                        value |-> m.value]})
               /\ playerNumber'[m.to] = PlayerNumber.two
               /\ state'[m.to] = GameState.setup
               /\ otherPlayerState'[m.to] = GameState.setup
               /\ pc'[m.to] = "pause"
       /\ \A p \in Peers :
            /\ Len(eventListeners'[p][RadioMessageEnum.shipsPlaced]) <= 1
            /\ pc[p] \in {"placing", "done"} => pc'[p] # "pause"]_vars

\* C25 witness: a peer has answered the playerJoined of the other, which is
\* still connecting: it is player two at the pause before placeShips and
\* its proceedingToSetup, carrying the id of the other, is in flight.
C25_Witness ==
    \E p \in Peers :
        /\ playerNumber[p] = PlayerNumber.two /\ pc[p] = "pause"
        /\ otherPlayerState[p] = GameState.setup
        /\ state[Other(p)] = GameState.connecting
        /\ BagIn([to |-> Other(p), key |-> RadioMessageEnum.proceedingToSetup,
                  value |-> playerId[Other(p)]], net)

\* C26: a connecting peer that is handed proceedingToSetup(id) becomes
\* player one in setup and goes on to placeShips, whether or not id is its
\* own id; nothing else changes and nothing is broadcast.
C26_MismatchNonFatal ==
    [][\A m \in BagToSet(net) :
          (/\ m.key = RadioMessageEnum.proceedingToSetup
           /\ state[m.to] = GameState.connecting
           /\ Receive(m))
          => /\ state' = [state EXCEPT ![m.to] = GameState.setup]
             /\ playerNumber' =
                    [playerNumber EXCEPT ![m.to] = PlayerNumber.one]
             /\ otherPlayerState' =
                    [otherPlayerState EXCEPT ![m.to] = GameState.setup]
             /\ pc' = [pc EXCEPT ![m.to] = "pause"]
             /\ net' = net (-) SetToBag({m})
             /\ UNCHANGED << currentTurn, shipsPlaced, cursor, eventListeners,
                             buttonListeners, shipIndex, shipCount >>]_vars

\* C26 witness: a peer is player one at the pause before placeShips while
\* the other peer is still connecting with no player number and nothing is
\* in flight: the proceedingToSetup it was handed carried the id of a device
\* outside the session.
C26_Witness ==
    \E p \in Peers :
        /\ playerNumber[p] = PlayerNumber.one /\ pc[p] = "pause"
        /\ state[Other(p)] = GameState.connecting
        /\ playerNumber[Other(p)] = PlayerNumber.notConnected
        /\ net = EmptyBag

\* C27: router dispatch order.  A call of on never removes or reorders the
\* callbacks that are registered, and a received message calls the callbacks
\* registered for its key, each once, in the order of their registration,
\* all with the same value, and calls no other callback.
C27_DispatchOrder ==
    [][ /\ \A k \in RouterKeys :
             /\ Len(eventListeners'[2][k]) >= Len(eventListeners[2][k])
             /\ SubSeq(eventListeners'[2][k], 1, Len(eventListeners[2][k]))
                    = eventListeners[2][k]
        /\ (probe'.fn = "onReceivedValue" /\ net' # net) =>
               LET registered == probe.registered[probe.key]
                   calls == probe'.calls
               IN  /\ Len(calls) = Len(registered)
                   /\ \A i \in 1..Len(calls) :
                          /\ calls[i][1] = registered[i]
                          /\ calls[i][2] = calls[1][2] ]_vars

\* C27: a message was received for a key with two different callbacks, which
\* ran in their order, while a callback of another key was registered
C27_Witness ==
    /\ probe.fn = "onReceivedValue"
    /\ probe.calls # << >>
    /\ Len(probe.calls) = 2
    /\ probe.calls[1][1] = "probeB"
    /\ probe.calls[2][1] = "probeA"
    /\ \E k \in RouterKeys \ { probe.key } : probe.registered[k] # << >>

\* C28: unhandled messages are dropped.  When a message is handed to a peer
\* that has no callback registered for its key, whether it was in flight
\* from the other peer or comes from another device, nothing is sent, no
\* field of either peer and no callback list changes, and no position in a
\* handler changes, so that nothing is left to replay.
C28_UnhandledDropped ==
    [][ /\ \A m \in BagToSet(net) :
             (/\ CopiesIn(m, net') < CopiesIn(m, net)
              /\ eventListeners[m.to][m.key] = << >>) =>
                 /\ net' = net (-) SetToBag({m})
                 /\ UNCHANGED << state, otherPlayerState, playerNumber,
                                 currentTurn, shipsPlaced, cursor, playerId,
                                 eventListeners, buttonListeners, pc,
                                 shipIndex, shipCount >>
        /\ probe' # probe =>
               UNCHANGED << state, otherPlayerState, playerNumber,
                            currentTurn, shipsPlaced, cursor, playerId,
                            eventListeners, buttonListeners, pc,
                            shipIndex, shipCount, net >> ]_vars

\* C28: the last message of another device, an attack, was handed to a peer
\* that was connecting and had no callback for it, while a message of the
\* session was in flight; the peer is still connecting
C28_Witness ==
    /\ probe.fn = "early"
    /\ probe.key = RadioMessageEnum.attack
    /\ state[probe.number] = GameState.connecting
    /\ eventListeners[probe.number][RadioMessageEnum.attack] = << >>
    /\ net # EmptyBag

\* C29: codec round trip over the wire.  sendValue puts on the wire the
\* integer itself for a key that starts with n and coordinatesToNumber of
\* the cell for a key that starts with c, and for every key of the catalog
\* the value given to the callbacks of the receiving peer is the value that
\* was passed to sendValue.
C29_WireRoundTrip ==
    /\ probe.fn = "sendValue" =>
           net = SetToBag({ Packet(2, probe.key,
                                   CASE charAt0(probe.key) = "n" -> probe.sent
                                     [] charAt0(probe.key) = "c" ->
                                            coordinatesToNumber(probe.sent)
                                     [] OTHER -> probe.sent) })
    /\ (probe.fn = "onReceivedValue" /\ probe.key \in Keys) =>
           \A i \in 1..Len(probe.calls) : probe.calls[i][2] = probe.sent

\* C29: the cell (1, 4) was sent as a hit and given to the callback of the
\* receiving peer
C29_Witness ==
    /\ probe.fn = "onReceivedValue"
    /\ probe.key = RadioMessageEnum.hit
    /\ probe.sent = << 1, 4 >>
    /\ probe.calls = << << "probeA", << 1, 4 >> >> >>

\* C30 as stated: for a received key that is not in the catalog, every
\* callback registered for the key is called with the integer that was
\* received, not with a coordinate.
C30_UnknownKeyRaw ==
    [][ (probe'.fn = "onReceivedValue" /\ net' # net) =>
           \A m \in BagToSet(net) :
               m.key \notin Keys =>
                   /\ Len(probe'.calls) = Len(eventListeners[m.to][m.key])
                   /\ \A i \in 1..Len(probe'.calls) :
                          ToString(probe'.calls[i][2]) = ToString(m.value) ]_vars

\* C30: unknown key fallback, by the first character of the key.  For a
\* received key that starts with neither n nor c, every callback registered
\* for the key is called with the integer that was received; a key that is
\* not in the catalog and starts with c is decoded into a coordinate like
\* the coordinate keys of the catalog.
C30_UnknownTypeRaw ==
    [][ (probe'.fn = "onReceivedValue" /\ net' # net) =>
           \A m \in BagToSet(net) :
               m.key \notin Keys =>
                   /\ Len(probe'.calls) = Len(eventListeners[m.to][m.key])
                   /\ \A i \in 1..Len(probe'.calls) :
                          ToString(probe'.calls[i][2]) =
                              IF charAt0(m.key) = "c"
                              THEN ToString(numberToCoordinates(m.value))
                              ELSE ToString(m.value) ]_vars

\* C30: the key xXx with the value 30 was received and the callback for it
\* was called with 30
C30_Witness ==
    /\ probe.fn = "onReceivedValue"
    /\ probe.key = UnknownKey
    /\ probe.number = 30
    /\ probe.calls # << >>
    /\ probe.calls[1][1] = "probeA"
    /\ probe.calls[1][2] = 30

\* C31: out-of-range coordinate values are rejected.  When attack, hit or
\* miss is received with an integer outside 0..24, no callback is called,
\* and no callback of these keys is ever called with a cell outside the
\* 5x5 grid.
C31_OutOfRangeRejected ==
    (/\ probe.fn = "onReceivedValue"
     /\ probe.key \in { RadioMessageEnum.attack, RadioMessageEnum.hit,
                        RadioMessageEnum.miss }) =>
        /\ probe.number \notin CellNumbers => probe.calls = << >>
        /\ \A i \in 1..Len(probe.calls) : probe.calls[i][2] \in Grid

\* C32: the codec is a bidirectional mapping on message kinds.  A received
\* message runs a callback only if one was registered for the kind that was
\* sent, as it must when the eight kinds have pairwise distinct wire keys.
C32_KindsDistinct ==
    [][ (probe'.fn = "onReceivedValue" /\ net' # net) =>
           (probe'.calls # << >> => probe.kind \in probe.kinds) ]_vars

\* C33: turn mutual exclusion.  In every reachable state at most one of the
\* two peers has its playerNumber equal to its own currentTurn, whatever is
\* in flight, so the two are never both allowed to attack.
C33_TurnMutualExclusion ==
    ~(isMyTurn(World, 1) /\ isMyTurn(World, 2))

\* C33: both peers are playing, one of them may attack and has moved its
\* cursor, the other may not
C33_Witness ==
    \E p \in Peers :
        /\ Playing(p) /\ Playing(Other(p))
        /\ isMyTurn(World, p)
        /\ ~isMyTurn(World, Other(p))
        /\ playerNumber[Other(p)] = PlayerNumber.two
        /\ cursor[p] # cursor[Other(p)]

\* C34: replies use a complete fleet.  Whenever a peer broadcasts hit or
\* miss, its fleet holds every ship of the catalog, as many of each class as
\* the class asks for.
C34_RepliesUseCompleteFleet ==
    [][\A p \in Peers :
          (\E m \in BagToSet(net') :
              /\ m.to = Other(p)
              /\ m.key \in { RadioMessageEnum.hit, RadioMessageEnum.miss }
              /\ CopiesIn(m, net') > CopiesIn(m, net))
          => \A k \in 1..Len(shipClasses) :
                 Cardinality({ j \in 1..Len(shipsPlaced[p]) :
                                 shipsPlaced[p][j].name = shipClasses[k].name })
                     = shipClasses[k].count]_vars

\* C35: placement starts at most once.  Whatever a peer receives, placeShips
\* has registered its callbacks for shipsPlaced and for startGame at most
\* once on that peer, and both or neither.
C35_PlacementStartsOnce ==
    \A p \in Peers :
        /\ Len(eventListeners[p][RadioMessageEnum.shipsPlaced]) <= 1
        /\ Len(eventListeners[p][RadioMessageEnum.startGame])
               = Len(eventListeners[p][RadioMessageEnum.shipsPlaced])

\* C35: both peers joined at once, each was joined by the other and has
\* entered placeShips, and the two replies, which came late, have been
\* handed over
C35_Witness ==
    /\ \A p \in Peers :
           /\ playerNumber[p] = PlayerNumber.two
           /\ pc[p] = "placing"
           /\ eventListeners[p][RadioMessageEnum.shipsPlaced] = << "shipsPlaced" >>
    /\ net = EmptyBag

\* C36: setup messages are sent at most once.  A peer broadcasts shipsPlaced
\* only in the step that ends its placement, and placement that is over
\* stays over; it broadcasts startGame only in a step in which it receives
\* shipsPlaced and moves from waitingForOtherPlayerToSetup to playing, and a
\* peer that is playing stays playing.
C36_SetupMessagesOnce ==
    [][\A p \in Peers :
          /\ (\E m \in BagToSet(net') :
                  /\ m.to = Other(p)
                  /\ m.key = RadioMessageEnum.shipsPlaced
                  /\ CopiesIn(m, net') > CopiesIn(m, net))
             => pc[p] = "placing" /\ pc'[p] = "done"
          /\ pc[p] = "done" => pc'[p] = "done"
          /\ (\E m \in BagToSet(net') :
                  /\ m.to = Other(p)
                  /\ m.key = RadioMessageEnum.startGame
                  /\ CopiesIn(m, net') > CopiesIn(m, net))
             => /\ state[p] = GameState.waitingForOtherPlayerToSetup
                /\ Playing(p)'
                /\ \E n \in BagToSet(net) :
                       /\ n.to = p
                       /\ n.key = RadioMessageEnum.shipsPlaced
                       /\ CopiesIn(n, net') < CopiesIn(n, net)
          /\ Playing(p) => Playing(p)']_vars

\* C36: a peer has placed its ships and said so, has received shipsPlaced
\* of the other peer, and its startGame is in flight
C36_Witness ==
    \E p \in Peers :
        /\ pc[p] = "done"
        /\ Playing(p)
        /\ \E m \in BagToSet(net) :
               m.to = Other(p) /\ m.key = RadioMessageEnum.startGame

\* C37: attacks only in playing.  A peer broadcasts attack, hit or miss only
\* in a step that it begins and ends in the phase playing, with the role of
\* player one or of player two.
C37_AttacksOnlyInPlaying ==
    [][\A p \in Peers :
          (\E m \in BagToSet(net') :
              /\ m.to = Other(p)
              /\ m.key \in { RadioMessageEnum.attack, RadioMessageEnum.hit,
                             RadioMessageEnum.miss }
              /\ CopiesIn(m, net') > CopiesIn(m, net))
          => /\ Playing(p)
             /\ Playing(p)'
             /\ playerNumber[p] \in { PlayerNumber.one, PlayerNumber.two }]_vars

\* C37: player one has attacked and the reply of player two, which is
\* playing, is in flight
C37_Witness ==
    \E p \in Peers :
        /\ Playing(p)
        /\ playerNumber[p] = PlayerNumber.two
        /\ playerNumber[Other(p)] = PlayerNumber.one
        /\ currentTurn[Other(p)] = PlayerNumber.two
        /\ \E m \in BagToSet(net) :
               /\ m.to = Other(p)
               /\ m.key \in { RadioMessageEnum.hit, RadioMessageEnum.miss }

\* C38: the cursor stays in the grid.  After every step both coordinates of
\* every cursor are between 0 and 4, a move along one axis adds one modulo
\* 5 and leaves the other axis alone, and an attack that a peer broadcasts
\* carries a number between 0 and 24 that numberToCoordinates turns back
\* into the cell of the cursor.
C38_CursorInGrid ==
    [][\A p \in Peers :
          /\ cursor'[p] \in Grid
          /\ cursor'[p] # cursor[p] =>
                 \/ cursor'[p] = << (cursor[p][1] + 1) % 5, cursor[p][2] >>
                 \/ cursor'[p] = << cursor[p][1], (cursor[p][2] + 1) % 5 >>
          /\ \A m \in BagToSet(net') :
                 (/\ m.to = Other(p)
                  /\ m.key = RadioMessageEnum.attack
                  /\ CopiesIn(m, net') > CopiesIn(m, net))
                 => /\ m.value \in CellNumbers
                    /\ numberToCoordinates(m.value) = cursor[p]]_vars

\* C38: a cursor has gone round both axes and stands on the last cell, and
\* the attack on that cell is in flight
C38_Witness ==
    \E p \in Peers :
        /\ cursor[p] = << 4, 4 >>
        /\ \E m \in BagToSet(net) :
               /\ m.to = Other(p)
               /\ m.key = RadioMessageEnum.attack
               /\ m.value = 24

====
